---- MODULE Spec2Model ----
(***************************************************************************)
(* Model of PisosYTechosBot (src/main.py): the level-detection pipeline    *)
(* (ATR, pivots, clustering, wick/momentum qualification), the scan loop   *)
(* escanear_y_alertar / run, and the DerivWS request/response client.      *)
(*                                                                         *)
(* Numbers.  Bar prices are integers (the provider's strings parsed by     *)
(* float()).  A cluster mean and the ATR are one division of two integers  *)
(* and are carried as that division, a record [n |-> numerator,            *)
(* d |-> denominator] with d > 0 (d = 0 for None).  Every decision the     *)
(* code takes on floats (percent_dist against the tolerance, the ATR band  *)
(* of near_level, the rejection score against 0.6, the sort key) is taken  *)
(* on the IEEE binary64 values Python computes, operation by operation     *)
(* with round-to-nearest-even.  SL and TP are kept as exact rationals.     *)
(* Indices into a bar series are 0-based as in the source; the TLA+        *)
(* sequence element of index i is candles[i + 1].                          *)
(***************************************************************************)
EXTENDS Integers, Sequences, FiniteSets, TLC

\* ------------------------------------------------------------------ config
ATR_PERIOD == 14
SL_ATR_FACTOR == 1
RR_RATIO == 10
MIN_TOUCHES == 3
\* MAX_DISTANCE_PCT = 0.20, the float of MaxPctNum / MaxPctDen
MaxPctNum == 1
MaxPctDen == 5
\* k_atr = 0.6, the float of KAtrNum / KAtrDen
KAtrNum == 6
KAtrDen == 10
PivotLeft == 2
PivotRight == 2
MomentumLook == 5
MinGoodHits == 2
MaxLevelsPerPair == 3
MinBarsExtra == 10
SleepSeconds == 120
ErrorSleepSeconds == 2
RecvTimeoutSeconds == 20

SYMBOLS == << "1HZ10V", "1HZ25V", "1HZ50V", "1HZ75V", "1HZ100V",
              "JD10", "JD25", "JD50", "JD75", "JD100" >>
TIMEFRAMES == << [name |-> "M15", gran |-> 900],
                    [name |-> "M30", gran |-> 1800],
                    [name |-> "H1",  gran |-> 3600],
                    [name |-> "H4",  gran |-> 14400],
                    [name |-> "D1",  gran |-> 86400] >>

\* ------------------------------------------------------------------ bounds
NumPairs == 2
MaxCycles == 2
MaxPivots == 3


\* ----------------------------------------------------------------- helpers
Abs(x) == IF x < 0 THEN 0 - x ELSE x
Max2(a, b) == IF a >= b THEN a ELSE b
Min2(a, b) == IF a <= b THEN a ELSE b
Rat(n, d) == [n |-> n, d |-> d]
IntRat(x) == [n |-> x, d |-> 1]

RECURSIVE SumSeq(_)
SumSeq(s) == IF s = << >> THEN 0 ELSE Head(s) + SumSeq(Tail(s))

\* ------------------------------------------- Python floats (IEEE binary64)
\* a natural number below 2^59 held in two words, hi * Word + lo with lo < Word
Word == 268435456
Limb == 16384
Wide(h, l) == [hi |-> h, lo |-> l]
WideZero == Wide(0, 0)
WideOne == Wide(0, 1)
WideOf(n) == Wide(n \div Word, n % Word)
WideGe(a, b) == a.hi > b.hi \/ (a.hi = b.hi /\ a.lo >= b.lo)
WideAdd(a, b) == Wide(a.hi + b.hi + ((a.lo + b.lo) \div Word), (a.lo + b.lo) % Word)
WideSub(a, b) ==
    IF a.lo >= b.lo THEN Wide(a.hi - b.hi, a.lo - b.lo)
    ELSE Wide(a.hi - b.hi - 1, a.lo + Word - b.lo)
WideDouble(a) == WideAdd(a, a)

RECURSIVE BitLength(_)
BitLength(n) == IF n = 0 THEN 0 ELSE 1 + BitLength(n \div 2)
WideLength(a) == IF a.hi > 0 THEN 28 + BitLength(a.hi) ELSE BitLength(a.lo)

\* a * 2^k, which has to stay below 2^59
RECURSIVE WideShl(_, _)
WideShl(a, k) ==
    IF k = 0 THEN a
    ELSE IF k >= 28 THEN WideShl(Wide(a.lo, 0), k - 28)
    ELSE Wide(a.hi * 2^k + (a.lo \div 2^(28 - k)), (a.lo % 2^(28 - k)) * 2^k)

\* a \div p for a power of two p <= Word
WideShr(a, p) == Wide(a.hi \div p, (a.hi % p) * (Word \div p) + (a.lo \div p))

\* the lowest bit of a set when bits were lost below it
Jam(a, lost) == IF lost /\ a.lo % 2 = 0 THEN Wide(a.hi, a.lo + 1) ELSE a

\* a \div 2^k for a below 2^56, the lowest bit set when a bit 1 was shifted out
RECURSIVE WideShrJam(_, _)
WideShrJam(a, k) ==
    IF k = 0 \/ a = WideZero THEN a
    ELSE IF k >= 28 THEN WideShrJam(Jam(Wide(0, a.hi), a.lo # 0), k - 28)
    ELSE Jam(WideShr(a, 2^k), a.lo % 2^k # 0)

\* a float is 0.0 or (-1)^neg * man * 2^exp with 2^52 <= man < 2^53; values
\* stay in the normal range, neither infinities nor NaN arise
Float(neg, man, exp) == [neg |-> neg, man |-> man, exp |-> exp]
FloatZero == Float(FALSE, WideZero, 0)

\* a mantissa that rounding carried up to 2^53 is 2^52 one exponent higher
Carried(neg, m, e) ==
    IF m = Wide(33554432, 0) THEN Float(neg, Wide(16777216, 0), e + 1)
    ELSE Float(neg, m, e)

\* kept + lost / p to nearest, ties to even
Nearest(neg, kept, lost, p, e) ==
    Carried(neg,
            IF 2 * lost > p \/ (2 * lost = p /\ kept.lo % 2 = 1)
            THEN WideAdd(kept, WideOne) ELSE kept,
            e)

\* v of n bits, 1 <= n <= 59, to a mantissa of 53 bits
Mantissa(neg, v, e, n) ==
    IF n <= 53 THEN Float(neg, WideShl(v, 53 - n), e + n - 53)
    ELSE Nearest(neg, WideShr(v, 2^(n - 53)), v.lo % 2^(n - 53), 2^(n - 53), e + n - 53)

\* v * 2^e rounded to nearest, ties to even; the lowest bit of a v of 55 bits
\* or more may stand for bits lost below it
FloatRound(neg, v, e) ==
    IF v = WideZero THEN FloatZero ELSE Mantissa(neg, v, e, WideLength(v))

\* float(n) for an integer n
FloatOf(n) == FloatRound(n < 0, WideOf(Abs(n)), 0)

FloatNeg(x) == IF x = FloatZero THEN x ELSE [x EXCEPT !.neg = ~x.neg]
FloatAbs(x) == [x EXCEPT !.neg = FALSE]

\* abs(x) <= abs(y)
FloatMagLe(x, y) ==
    \/ x = FloatZero
    \/ /\ y # FloatZero
       /\ x.exp < y.exp \/ (x.exp = y.exp /\ WideGe(y.man, x.man))

\* x <= y
FloatLe(x, y) ==
    IF x.neg # y.neg THEN x.neg
    ELSE IF x.neg THEN FloatMagLe(y, x)
    ELSE FloatMagLe(x, y)
FloatLt(x, y) == ~FloatLe(y, x)

\* the exact sum or difference of two aligned mantissas, rounded
Combine(bneg, sneg, a, b, e) ==
    FloatRound(IF bneg = sneg \/ WideGe(a, b) THEN bneg ELSE sneg,
               IF bneg = sneg THEN WideAdd(a, b)
               ELSE IF WideGe(a, b) THEN WideSub(a, b)
               ELSE WideSub(b, a),
               e)

\* big + small for big.exp >= small.exp: both mantissas get three more low
\* bits, the smaller operand moves to the exponent of the larger one
Align(big, small) ==
    Combine(big.neg, small.neg, WideShl(big.man, 3),
            WideShrJam(WideShl(small.man, 3), big.exp - small.exp), big.exp - 3)

\* x + y
FloatAdd(x, y) ==
    IF x = FloatZero THEN y
    ELSE IF y = FloatZero THEN x
    ELSE IF x.exp >= y.exp THEN Align(x, y)
    ELSE Align(y, x)

\* x - y
FloatSub(x, y) == FloatAdd(x, FloatNeg(y))

\* the four 14-bit limbs of a mantissa, lowest first
Limbs(m) == << m.lo % Limb, m.lo \div Limb, m.hi % Limb, m.hi \div Limb >>

\* a[i] * b[j], 0 when there is no limb j
Term(a, b, i, j) == IF j \in 1..4 THEN a[i] * b[j] ELSE 0

\* column k of the product by limbs, with the carry of the columns below it
RECURSIVE Column(_, _, _)
Column(a, b, k) ==
    Term(a, b, 1, k + 1) + Term(a, b, 2, k) + Term(a, b, 3, k - 1) + Term(a, b, 4, k - 2)
    + (IF k = 0 THEN 0 ELSE Column(a, b, k - 1) \div Limb)

\* the top 56 bits of the 106-bit product whose columns are c[0] .. c[6],
\* the lowest bit set when a bit 1 is lost below them
Top56(c) ==
    Jam(Wide(((c[5] % Limb) \div 256) + (c[6] % Limb) * 64 + (c[6] \div Limb) * 1048576,
             ((c[3] % Limb) \div 256) + (c[4] % Limb) * 64 + ((c[5] % Limb) % 256) * 1048576),
        c[0] % Limb # 0 \/ c[1] % Limb # 0 \/ c[2] % Limb # 0 \/ (c[3] % Limb) % 256 # 0)

Product(a, b) == Top56([k \in 0..6 |-> Column(a, b, k)])

\* x * y: the exact 106-bit product by limbs, its top 56 bits rounded
FloatMul(x, y) ==
    IF x = FloatZero \/ y = FloatZero THEN FloatZero
    ELSE FloatRound(x.neg # y.neg, Product(Limbs(x.man), Limbs(y.man)), x.exp + y.exp + 50)

\* k more bits of the quotient by den: st.quo holds the bits found so far and
\* st.rem the remainder, doubled; the lowest bit is set when a remainder is left
RECURSIVE DivideBits(_, _, _)
DivideBits(st, den, k) ==
    IF k = 0 THEN Jam(st.quo, st.rem # WideZero)
    ELSE IF st.rem = WideZero THEN WideShl(st.quo, k)
    ELSE DivideBits(IF WideGe(st.rem, den)
                    THEN [rem |-> WideDouble(WideSub(st.rem, den)),
                          quo |-> WideAdd(WideDouble(st.quo), WideOne)]
                    ELSE [rem |-> WideDouble(st.rem), quo |-> WideDouble(st.quo)],
                    den, k - 1)

\* one step of short division: cur holds the remainder so far followed by the
\* next digit, of the given number of bits
ShortStep(quo, cur, d, bits) ==
    [quo |-> WideAdd(WideShl(quo, bits), Wide(0, cur \div d)), rem |-> cur % d]

\* the same quotient, man * 2^55 \div (d * 2^37), for a divisor mantissa
\* d * 2^37 with 2^15 <= d < 2^16: short division of the limbs of man, highest
\* first, followed by 18 bits 0
RECURSIVE DivideShort(_, _, _)
DivideShort(st, d, digits) ==
    IF digits = << >> THEN Jam(st.quo, st.rem # 0)
    ELSE DivideShort(ShortStep(st.quo, st.rem * 2^(Head(digits)[2]) + Head(digits)[1],
                               d, Head(digits)[2]),
                     d, Tail(digits))

Digits(a) == << << a[4], 14 >>, << a[3], 14 >>, << a[2], 14 >>, << a[1], 14 >>,
                << 0, 14 >>, << 0, 4 >> >>

\* x / y for y # 0.0 (Python raises ZeroDivisionError on y = 0.0)
FloatDiv(x, y) ==
    IF x = FloatZero THEN FloatZero
    ELSE FloatRound(x.neg # y.neg,
                    IF y.man.lo = 0 /\ y.man.hi % 512 = 0
                    THEN DivideShort([quo |-> WideZero, rem |-> 0], y.man.hi \div 512,
                                     Digits(Limbs(x.man)))
                    ELSE DivideBits([rem |-> x.man, quo |-> WideZero], y.man, 56),
                    x.exp - y.exp - 55)

\* the float n / d of two integers, also the float a decimal literal n/d denotes
FloatOfRat(r) == FloatDiv(FloatOf(r.n), FloatOf(r.d))

\* a \div 2^k
RECURSIVE WideShrBits(_, _)
WideShrBits(a, k) ==
    IF k = 0 THEN a
    ELSE IF k >= 28 THEN WideShrBits(Wide(0, a.hi), k - 28)
    ELSE WideShr(a, 2^k)

\* int(x): x truncated towards zero, for abs(x) below 2^31
Signed(neg, m) == IF neg THEN 0 - (m.hi * Word + m.lo) ELSE m.hi * Word + m.lo
FloatInt(x) ==
    IF x = FloatZero THEN 0 ELSE Signed(x.neg, WideShrBits(x.man, 0 - x.exp))

MAX_DISTANCE_PCT == FloatOfRat(Rat(MaxPctNum, MaxPctDen))

\* prices, level prices and the ATR are carried as the integers n and d of
\* the one division that produces them; FloatOfRat is the float the code holds

\* --------------------------------------------------------- percent_dist
\* percent_dist(a, b) raises ZeroDivisionError when (a + b) / 2.0 is 0.0
percent_dist_raises(a, b) == FloatDiv(FloatAdd(a, b), FloatOf(2)) = FloatZero

\* abs(a - b) / ((a + b) / 2.0) * 100.0, for floats a and b
percent_dist(a, b) ==
    FloatMul(FloatDiv(FloatAbs(FloatSub(a, b)), FloatDiv(FloatAdd(a, b), FloatOf(2))),
             FloatOf(100))

\* percent_dist(a, b) <= pct
percent_dist_le(a, b, pct) == FloatLe(percent_dist(a, b), pct)

\* ------------------------------------------------------ atr_from_candles
TrueRange(candles, i) ==
    LET h  == candles[i + 1].high
        l  == candles[i + 1].low
        pc == candles[i].close
    IN  Max2(h - l, Max2(Abs(h - pc), Abs(l - pc)))

\* None is the record with d = 0
AtrNone == [n |-> 0, d |-> 0]
atr_from_candles(candles, period) ==
    LET trs == [i \in 1..(Len(candles) - 1) |-> TrueRange(candles, i)]
    IN  IF Len(trs) < period
        THEN AtrNone
        ELSE Rat(SumSeq(SubSeq(trs, Len(trs) - period + 1, Len(trs))), period)

\* ---------------------------------------------------------- pivot_points
PivotsAt(candles, i, left, right) ==
    LET win == (i - left)..(i + right)
        c   == candles[i + 1]
        isHigh == \A j \in win : candles[j + 1].high <= c.high
        isLow  == \A j \in win : candles[j + 1].low >= c.low
    IN  (IF isHigh THEN << [idx |-> i, price |-> c.high, type |-> "techo"] >> ELSE << >>)
        \o
        (IF isLow THEN << [idx |-> i, price |-> c.low, type |-> "piso"] >> ELSE << >>)

RECURSIVE PivotsFrom(_, _, _, _)
PivotsFrom(candles, i, left, right) ==
    IF i >= Len(candles) - right
    THEN << >>
    ELSE PivotsAt(candles, i, left, right) \o PivotsFrom(candles, i + 1, left, right)

pivot_points(candles, left, right) == PivotsFrom(candles, left, left, right)

\* -------------------------------------------------------- cluster_levels
CountType(group, t) == Cardinality({k \in 1..Len(group) : group[k].type = t})

\* plausible slip: the level takes the kind of its seed pivot
DominantTypeSeed(group) == group[1].type

\* "Tipo dominante": piso unless techo members are strictly more numerous
DominantType(group) ==
    IF CountType(group, "piso") >= CountType(group, "techo") THEN "piso" ELSE "techo"

\* price = sum(m["price"] for m in group) / len(group)
MeanPrice(group) ==
    Rat(SumSeq([k \in 1..Len(group) |-> group[k].price]), Len(group))

\* indices j > i, not yet used, that the inner loop compares with the seed i
Compared(pivots, i, used) == {j \in (i + 1)..Len(pivots) : j \notin used}

\* the indices appended to the seed's group, in list order
Joiners(pivots, max_pct, i, used) ==
    SelectSeq([k \in 1..Len(pivots) |-> k],
              LAMBDA j : /\ j \in Compared(pivots, i, used)
                         /\ percent_dist_le(FloatOf(pivots[i].price),
                                            FloatOf(pivots[j].price), max_pct))

\* group = [p] and the pivots of indices js appended to it
GroupOf(pivots, i, js) == << pivots[i] >> \o [k \in 1..Len(js) |-> pivots[js[k]]]

\* used after the seed i took the pivots of indices js
Taken(used, i, js) == used \cup {i} \cup {js[k] : k \in 1..Len(js)}

MakeCluster(group) ==
    [price |-> MeanPrice(group), type |-> DominantType(group),
     touches |-> Len(group), members |-> group]

RECURSIVE ClustersFrom(_, _, _, _)
\* the cluster of the seed i, which takes the pivots of indices js, then the
\* clusters of the seeds after it
Seeded(pivots, max_pct, i, used, js) ==
    << MakeCluster(GroupOf(pivots, i, js)) >>
    \o ClustersFrom(pivots, max_pct, i + 1, Taken(used, i, js))

ClustersFrom(pivots, max_pct, i, used) ==
    IF i > Len(pivots) THEN << >>
    ELSE IF i \in used THEN ClustersFrom(pivots, max_pct, i + 1, used)
    ELSE Seeded(pivots, max_pct, i, used, Joiners(pivots, max_pct, i, used))

\* the loop raises ZeroDivisionError at the first comparison whose prices sum to 0
RECURSIVE ClusterRaisesFrom(_, _, _, _)
ClusterRaisesFrom(pivots, max_pct, i, used) ==
    IF i > Len(pivots) THEN FALSE
    ELSE IF i \in used THEN ClusterRaisesFrom(pivots, max_pct, i + 1, used)
    ELSE \/ \E j \in Compared(pivots, i, used) :
               percent_dist_raises(FloatOf(pivots[i].price), FloatOf(pivots[j].price))
         \/ ClusterRaisesFrom(pivots, max_pct, i + 1,
                              Taken(used, i, Joiners(pivots, max_pct, i, used)))

cluster_levels_raises(pivots, max_pct) == ClusterRaisesFrom(pivots, max_pct, 1, {})

\* sort key abs(x["price"] - last_close)
DistKey(x, last_close) == FloatAbs(FloatSub(FloatOfRat(x.price), FloatOf(last_close)))
DistKeyLe(x, y, last_close) == FloatLe(DistKey(x, last_close), DistKey(y, last_close))

\* list.sort is stable: x goes after every element whose key is <= its own
RECURSIVE InsertByDist(_, _, _)
InsertByDist(sorted, x, last_close) ==
    IF sorted = << >> THEN << x >>
    ELSE IF DistKeyLe(Head(sorted), x, last_close)
         THEN << Head(sorted) >> \o InsertByDist(Tail(sorted), x, last_close)
         ELSE << x >> \o sorted

RECURSIVE SortByDist(_, _)
SortByDist(s, last_close) ==
    IF s = << >> THEN << >>
    ELSE InsertByDist(SortByDist(SubSeq(s, 1, Len(s) - 1), last_close),
                      s[Len(s)], last_close)

cluster_levels(pivots, max_pct, last_close) ==
    SortByDist(ClustersFrom(pivots, max_pct, 1, {}), last_close)

\* -------------------------------------------------- wick_rejection_score
\* the literals 1e-9, 0.7, 0.3, 0.8 of the function and 0.6 of its caller
MinRange == FloatOfRat(Rat(1, 1000000000))
WickWeight == FloatOfRat(Rat(7, 10))
BodyWeight == FloatOfRat(Rat(3, 10))
FarPenalty == FloatOfRat(Rat(8, 10))
GoodScore == FloatOfRat(Rat(6, 10))

\* max(a, b) and min(a, b) of Python: the first argument unless the second
\* is strictly greater, strictly smaller
FloatMax(a, b) == IF FloatLt(a, b) THEN b ELSE a
FloatMin(a, b) == IF FloatLt(b, a) THEN b ELSE a

\* (w / range_) * 0.7 + (1 - body / range_) * 0.3, w the wick on the level's side
RawScore(body, range, w) ==
    FloatAdd(FloatMul(FloatDiv(w, range), WickWeight),
             FloatMul(FloatSub(FloatOf(1), FloatDiv(body, range)), BodyWeight))

\* if not near_level: score *= 0.8
Penalised(score, near) == IF near THEN score ELSE FloatMul(score, FarPenalty)

\* the function on the floats body and range_ and the wick on the level's side
Rejection(body, range, w, near) ==
    IF FloatLe(range, FloatZero) THEN FloatZero
    ELSE FloatMax(FloatZero, FloatMin(FloatOf(1), Penalised(RawScore(body, range, w), near)))

wick_rejection_score(candle, level_type, near) ==
    Rejection(FloatOf(Abs(candle.close - candle.open)),
              FloatMax(MinRange, FloatOf(candle.high - candle.low)),
              FloatOf(IF level_type = "techo"
                      THEN candle.high - Max2(candle.open, candle.close)
                      ELSE Min2(candle.open, candle.close) - candle.low),
              near)

\* score >= 0.6
ScoreGood(score) == FloatLe(GoodScore, score)

\* --------------------------------------------------- momentum_into_level
UpsBefore(candles, idx, look) ==
    Cardinality({i \in (idx - look)..(idx - 1) : candles[i + 1].close > candles[i + 1].open})
DownsBefore(candles, idx, look) == look - UpsBefore(candles, idx, look)

\* int(0.7 * look)
MomentumThreshold(look) == FloatInt(FloatMul(FloatOfRat(Rat(7, 10)), FloatOf(look)))

momentum_into_level(candles, idx, look) ==
    IF idx - look < 0 THEN FALSE
    ELSE \/ UpsBefore(candles, idx, look) >= MomentumThreshold(look)
         \/ DownsBefore(candles, idx, look) >= MomentumThreshold(look)

\* ------------------------------------------------------------ near_level
\* cond_pct is computed whatever cond_atr is: percent_dist may raise
near_level_raises(price, level) == percent_dist_raises(FloatOf(price), FloatOfRat(level))

\* cond_atr or cond_pct on the floats price, level and atr; atr is None
\* unless has_atr
Near(price, level, has_atr, atr, k_atr, max_pct) ==
    \/ has_atr /\ FloatLe(FloatAbs(FloatSub(price, level)), FloatMul(k_atr, atr))
    \/ percent_dist_le(price, level, max_pct)

near_level(price, level, atr, k_atr, max_pct) ==
    Near(FloatOf(price), FloatOfRat(level), atr.d # 0, FloatOfRat(atr), k_atr, max_pct)

\* ---------------------------------------------- detectar_niveles_fuertes
\* plausible slip: the touch filter is dropped
PassesTouchesAny(cl, min_touches) == cl.touches >= 1

\* not (cl["touches"] < min_touches)
PassesTouches(cl, min_touches) == cl.touches >= min_touches

\* near and score >= 0.6, for the bar of a member pivot
Rejected(cndl, level_type, near) ==
    near /\ ScoreGood(wick_rejection_score(cndl, level_type, near))

\* a member pivot is a good hit: near and score >= 0.6 and mom
GoodHit(candles, cl, m, max_pct, atr) ==
    /\ Rejected(candles[m.idx + 1], cl.type,
                near_level(candles[m.idx + 1].close, cl.price, atr,
                           FloatOfRat(Rat(KAtrNum, KAtrDen)), max_pct))
    /\ momentum_into_level(candles, m.idx, MomentumLook)

IndicesOf(hits) == [k \in 1..Len(hits) |-> hits[k].idx]

\* evidences, as the indices of the good hits in member order (the rounded
\* score stored next to each index is only ever counted by the caller)
Evidences(candles, cl, max_pct, atr) ==
    IndicesOf(SelectSeq(cl.members, LAMBDA m : GoodHit(candles, cl, m, max_pct, atr)))

\* the clusters the loop does not leave at "continue", in order
Touched(clusters, min_touches) ==
    SelectSeq(clusters, LAMBDA cl : PassesTouches(cl, min_touches))

\* each of them with its evidences
Scored(candles, kept, max_pct, atr) ==
    [k \in 1..Len(kept) |->
        [type      |-> kept[k].type,
         price     |-> kept[k].price,
         touches   |-> kept[k].touches,
         evidences |-> Evidences(candles, kept[k], max_pct, atr)]]

\* out: those with good_hits >= 2
Confirmed(scored) == SelectSeq(scored, LAMBDA lv : Len(lv.evidences) >= MinGoodHits)

\* near_level raises for a member of a cluster that passed the touch filter
NearRaises(candles, kept) ==
    \E k \in 1..Len(kept) : \E j \in 1..Len(kept[k].members) :
        near_level_raises(candles[kept[k].members[j].idx + 1].close, kept[k].price)

detectar_niveles_fuertes_raises(candles, min_touches, max_pct) ==
    /\ Len(candles) >= ATR_PERIOD + MinBarsExtra
    /\ NearRaises(candles,
                  Touched(cluster_levels(pivot_points(candles, PivotLeft, PivotRight),
                                         max_pct, candles[Len(candles)].close),
                          min_touches))

detectar_niveles_fuertes(candles, min_touches, max_pct, atr) ==
    IF Len(candles) < ATR_PERIOD + MinBarsExtra THEN << >>
    ELSE SortByDist(
             Confirmed(
                 Scored(candles,
                        Touched(cluster_levels(pivot_points(candles, PivotLeft, PivotRight),
                                               max_pct, candles[Len(candles)].close),
                                min_touches),
                        max_pct, atr)),
             candles[Len(candles)].close)

\* --------------------------------------------------- exact rational maths
RECURSIVE GCD(_, _)
GCD(a, b) == IF b = 0 THEN a ELSE GCD(b, a % b)

Reduced(r, g) == IF g = 0 THEN r ELSE Rat(r.n \div g, r.d \div g)
Norm(r) == Reduced(r, GCD(Abs(r.n), r.d))

RatAdd(a, b) == Norm(Rat(a.n * b.d + b.n * a.d, a.d * b.d))
RatSub(a, b) == Norm(Rat(a.n * b.d - b.n * a.d, a.d * b.d))
RatScale(k, a) == Norm(Rat(k * a.n, a.d))
RatAbs(a) == Rat(Abs(a.n), a.d)
RatEq(a, b) == a.n * b.d = b.n * a.d
RatLt(a, b) == a.n * b.d < b.n * a.d
RatLe(a, b) == a.n * b.d <= b.n * a.d

\* ------------------------------------------ escanear_y_alertar, one pair
\* sl = price - SL_ATR_FACTOR * atr (piso), price + SL_ATR_FACTOR * atr (techo)
StopLoss(lv, atr) ==
    IF lv.type = "piso"
    THEN RatSub(lv.price, RatScale(SL_ATR_FACTOR, atr))
    ELSE RatAdd(lv.price, RatScale(SL_ATR_FACTOR, atr))

\* plausible slip: the reward is one risk, the ratio is forgotten
TakeProfitFlat(lv, sl) ==
    IF lv.type = "piso"
    THEN RatAdd(lv.price, RatSub(lv.price, sl))
    ELSE RatSub(lv.price, RatSub(sl, lv.price))

\* tp = price + RR_RATIO * (price - sl) (piso), price - RR_RATIO * (sl - price) (techo)
TakeProfit(lv, sl) ==
    IF lv.type = "piso"
    THEN RatAdd(lv.price, RatScale(RR_RATIO, RatSub(lv.price, sl)))
    ELSE RatSub(lv.price, RatScale(RR_RATIO, RatSub(sl, lv.price)))

\* detectar_niveles_fuertes is called and raises ZeroDivisionError, out of
\* percent_dist in cluster_levels or in near_level
RaisesWith(candles, atr) ==
    /\ atr.d # 0 /\ atr.n > 0
    /\ \/ cluster_levels_raises(pivot_points(candles, PivotLeft, PivotRight),
                                MAX_DISTANCE_PCT)
       \/ detectar_niveles_fuertes_raises(candles, MIN_TOUCHES, MAX_DISTANCE_PCT)

DetectionRaises(candles) ==
    /\ Len(candles) >= ATR_PERIOD + MinBarsExtra
    /\ RaisesWith(candles, atr_from_candles(candles, ATR_PERIOD))

FirstN(s, k) == SubSeq(s, 1, Min2(Len(s), k))

\* how many of niveles[:3] the alert loop goes through before percent_dist
\* raises on one of them, all of them when none does
RECURSIVE LevelsReached(_, _)
LevelsReached(lvls, last_price) ==
    IF lvls = << >> THEN 0
    ELSE IF percent_dist_raises(FloatOf(last_price), FloatOfRat(Head(lvls).price))
    THEN 0
    ELSE 1 + LevelsReached(Tail(lvls), last_price)

\* those of the levels gone through that the loop does not leave at
\* "continue": not (dist_pct > MAX_DISTANCE_PCT)
InReach(lvls, last_price) ==
    SelectSeq(lvls, LAMBDA lv : percent_dist_le(FloatOf(last_price), FloatOfRat(lv.price),
                                                MAX_DISTANCE_PCT))

\* the message sent for lv, with the two latest closes it was decided on
AlertOf(lv, atr, sl, last_price, prev_price) ==
    [type |-> lv.type, price |-> Norm(lv.price), touches |-> lv.touches,
     sl |-> sl, tp |-> TakeProfit(lv, sl), atr |-> atr,
     evidences |-> lv.evidences, close |-> last_price, prev |-> prev_price]

AlertsOf(lvls, atr, last_price, prev_price) ==
    [k \in 1..Len(lvls) |->
        AlertOf(lvls[k], atr, StopLoss(lvls[k], atr), last_price, prev_price)]

\* how the try block of one pair ends: by an exception, by one of the three
\* "continue" statements, or after the alert loop; the levels detected and
\* the alerts sent on the way
Outcome(raises, skipped, niveles, alerts) ==
    [raises |-> raises, skipped |-> skipped, niveles |-> niveles, alerts |-> alerts]

\* the alert loop over first = niveles[:3], which goes through reached of them
AlertLoop(niveles, first, reached, atr, last_price, prev_price) ==
    Outcome(reached < Len(first), FALSE, niveles,
            AlertsOf(InReach(FirstN(first, reached), last_price),
                     atr, last_price, prev_price))

\* from "if not niveles" on
WithLevels(niveles, atr, last_price, prev_price) ==
    IF niveles = << >> THEN Outcome(FALSE, TRUE, << >>, << >>)
    ELSE AlertLoop(niveles, FirstN(niveles, MaxLevelsPerPair),
                   LevelsReached(FirstN(niveles, MaxLevelsPerPair), last_price),
                   atr, last_price, prev_price)

\* from "if atr is None or atr <= 0" on
WithAtr(candles, atr) ==
    IF atr.d = 0 \/ atr.n <= 0 THEN Outcome(FALSE, TRUE, << >>, << >>)
    ELSE IF RaisesWith(candles, atr) THEN Outcome(TRUE, FALSE, << >>, << >>)
    ELSE WithLevels(detectar_niveles_fuertes(candles, MIN_TOUCHES, MAX_DISTANCE_PCT, atr),
                    atr, candles[Len(candles)].close, candles[Len(candles) - 1].close)

\* the try block once ws.candles has returned candles
TryPair(candles) ==
    IF Len(candles) < ATR_PERIOD + MinBarsExtra THEN Outcome(FALSE, TRUE, << >>, << >>)
    ELSE WithAtr(candles, atr_from_candles(candles, ATR_PERIOD))

\* the pair is skipped by one of the three "continue" statements
Skipped(candles) == TryPair(candles).skipped

\* the analysis of the bars ends in the except block
AnalysisRaises(candles) == TryPair(candles).raises

\* the levels one pair alerts on, in order, each with the computed SL / TP
\* and the two latest closes the decision was taken on
Alerts(candles) == TryPair(candles).alerts

\* ------------------------------------------------- provider's bar series
Bar(o, h, l, c) == [open |-> o, high |-> h, low |-> l, close |-> c]

\* a touch of the 1010 area every 6th bar, small alternating bars between
TechoBar(i, every) ==
    IF i % every = 5 THEN Bar(1008, 1010 + ((i \div 6) % 2), 1007, 1008)
    ELSE IF i % 2 = 0 THEN Bar(1000, 1003, 999, 1002)
    ELSE Bar(1002, 1004, 1000, 1001)

\* touches of 1010 whose rejection score is 0.7 * 9/17 + 0.3 * 13/17, the
\* threshold 0.6 in exact arithmetic and 0.5999999999999999 in floats
EdgeBar(i) ==
    IF i % 6 = 5 THEN Bar(997, 1010, 993, 1001) ELSE Bar(999, 1005, 989, 1000)

\* the two latest bars, closing at prev and then at last
Tail2(prev, last) ==
    << Bar(prev - 1, prev + 1, prev - 2, prev),
       Bar(prev, Max2(prev, last) + 1, Min2(prev, last) - 1, last) >>

\* the same series reflected about 1000: highs become lows
Mirror(b) == Bar(2000 - b.open, 2000 - b.low, 2000 - b.high, 2000 - b.close)

\* the shortest series the pipeline analyses, and one it skips
BaseBars == ATR_PERIOD + MinBarsExtra
ShortBars == MinBarsExtra

SeriesOf(d) ==
    CASE d.kind = "techo" -> [i \in 1..BaseBars |-> TechoBar(i - 1, 6)] \o Tail2(d.prev, d.last)
      [] d.kind = "piso"  -> LET s == [i \in 1..BaseBars |-> TechoBar(i - 1, 6)]
                                       \o Tail2(d.prev, d.last)
                             IN  [i \in 1..Len(s) |-> Mirror(s[i])]
      [] d.kind = "weak"  -> [i \in 1..BaseBars |-> TechoBar(i - 1, 12)] \o Tail2(d.prev, d.last)
      [] d.kind = "edge"  -> [i \in 1..BaseBars |-> EdgeBar(i - 1)] \o Tail2(d.prev, d.last)
      [] d.kind = "short" -> [i \in 1..ShortBars |-> TechoBar(i - 1, 6)]
      [] d.kind = "flat"  -> [i \in 1..(BaseBars + 2) |-> Bar(1000, 1000, 1000, 1000)]
      [] d.kind = "zero"  -> [i \in 1..(BaseBars + 2) |-> Bar(0, 1, 0, 0)]

PrevCloses == {1000, 1009, 1012}
LastCloses == {1005, 1009, 1011}

Series ==
    [kind : {"techo", "piso", "weak"}, prev : PrevCloses, last : LastCloses]
    \cup [kind : {"short", "flat", "zero"}, prev : {1000}, last : {1000}]
    \cup [kind : {"edge"}, prev : {1000}, last : {1011}]

\* a level as detectar_niveles_fuertes sees it in cluster_levels' result:
\* kind, price, touches, and the number and the sum of the prices of members
Digest(cl) ==
    [type |-> cl.type, price |-> cl.price, touches |-> cl.touches,
     count |-> Len(cl.members),
     total |-> SumSeq([k \in 1..Len(cl.members) |-> cl.members[k].price])]

\* detectar_niveles_fuertes is called on the bars and returns
Detected(candles, atr) ==
    /\ Len(candles) >= ATR_PERIOD + MinBarsExtra
    /\ atr.d # 0 /\ atr.n > 0
    /\ ~RaisesWith(candles, atr)

\* the outcome of the try block with the clusters detection went through
Report(tried, cls) ==
    [raises   |-> tried.raises,
     clusters |-> [k \in 1..Len(cls) |-> Digest(cls[k])],
     niveles  |-> tried.niveles,
     alerts   |-> tried.alerts]

Analysed(candles) ==
    Report(TryPair(candles),
           IF Detected(candles, atr_from_candles(candles, ATR_PERIOD))
           THEN cluster_levels(pivot_points(candles, PivotLeft, PivotRight),
                               MAX_DISTANCE_PCT, candles[Len(candles)].close)
           ELSE << >>)

\* what the pipeline computes on one series the provider can answer with
Analyse(d) == Analysed(SeriesOf(d))

\* Analyse tabulated once over the provider's series
RECURSIVE Tabulate(_)
Tabulate(S) ==
    IF S = {} THEN << >>
    ELSE LET d == CHOOSE e \in S : TRUE
         IN  (d :> Analyse(d)) @@ Tabulate(S \ {d})

Analysis == Tabulate(Series)

\* the cooldown the Proximity & Alert Policy is specified with (120-180 s)
CooldownSeconds == 180

\* =================================================== the scan loop (run)
VARIABLES
    pipeline,     \* Analysis, computed once when the process starts, never changed
    ctl,          \* "scan": inside escanear_y_alertar; "crashed": an exception left it
    cycle,        \* scan cycles completed
    pos,          \* position of the next pair in the loop over the pairs (1-based)
    req_id,       \* DerivWS.req_id
    wire,         \* responses the socket will deliver, oldest first, each named
                  \* by the request it answers
    attempts,     \* per pair, the number of times this cycle attempted it
    first_failed, \* position of the first pair of this cycle that ended in the
                  \* except block, 0 if none did
    last_key,     \* Alert Key of the latest notification sent, << >> before any
    since,        \* seconds since that notification, counted up to CooldownSeconds
    outbox,       \* notifications sent by the latest iteration, in order
    response,     \* the latest return of DerivWS.candles: request made, response read
    bars,         \* the series that return carried
    levels,       \* detectar_niveles_fuertes of that series
    stage,        \* cluster_levels applied alone: "idle", "input", "clustered", "reclustered"
    input,        \* the pivot list and latest close handed to cluster_levels
    output,       \* the levels it returned
    again         \* cluster_levels of the returned centroids taken as singleton pivots

scanvars == << pipeline, ctl, cycle, pos, req_id, wire, attempts, first_failed,
               last_key, since, outbox, response, bars, levels >>
clustervars == << stage, input, output, again >>
vars == << scanvars, clustervars >>

\* for symbol in SYMBOLS: for tf_name, gran in TIMEFRAMES.items(), cut to the
\* first NumPairs pairs
Pairs ==
    [k \in 1..NumPairs |->
        [symbol |-> SYMBOLS[((k - 1) \div Len(TIMEFRAMES)) + 1],
         tf     |-> TIMEFRAMES[((k - 1) % Len(TIMEFRAMES)) + 1].name,
         gran   |-> TIMEFRAMES[((k - 1) % Len(TIMEFRAMES)) + 1].gran]]
NPairs == Len(Pairs)

NoResponse == [asked |-> << >>, got |-> << >>]
NoSeries == [kind |-> "none", prev |-> 0, last |-> 0]

ScanInit ==
    /\ ctl = "scan"
    /\ cycle = 0
    /\ pos = 1
    /\ req_id = 2
    /\ wire = << >>
    /\ attempts = [k \in 1..NPairs |-> 0]
    /\ first_failed = 0
    /\ last_key = << >>
    /\ since = 0
    /\ outbox = << >>
    /\ response = NoResponse
    /\ bars = NoSeries
    /\ levels = << >>

\* DerivWS.__init__: the authorize request took req_id 1 and its answer was read
Init ==
    /\ pipeline = Analysis
    /\ ScanInit
    /\ stage = "idle"
    /\ input = [pivots |-> << >>, last_close |-> 0]
    /\ output = << >>
    /\ again = << >>

\* DerivWS._send for the ticks_history request of the pair at pos
Request == [req_id |-> req_id, symbol |-> Pairs[pos].symbol, gran |-> Pairs[pos].gran]
Sent == Append(wire, Request)

\* the clock of the latest notification after dt more seconds
Elapse(key, age, dt) ==
    IF key = << >> THEN 0 ELSE Min2(CooldownSeconds, age + dt)

\* the notification of alert a of the pair at pos; gap is the time since the
\* previous notification when that one had the same Alert Key, -1 otherwise
Notify(a, key, age) ==
    [symbol |-> Pairs[pos].symbol, tf |-> Pairs[pos].tf,
     type |-> a.type, price |-> a.price, touches |-> a.touches,
     sl |-> a.sl, tp |-> a.tp, atr |-> a.atr, evidences |-> a.evidences,
     close |-> a.close, prev |-> a.prev,
     gap |-> IF key = << Pairs[pos].symbol, Pairs[pos].tf, a.type, a.price >>
             THEN age ELSE -1]

\* Alert Key of a notification
KeyOf(n) == << n.symbol, n.tf, n.type, n.price >>

RECURSIVE SendAll(_, _, _)
\* print and send_telegram for each alert in turn
SendAll(alerts, key, age) ==
    IF alerts = << >> THEN << >>
    ELSE LET n == Notify(Head(alerts), key, age)
         IN  << n >> \o SendAll(Tail(alerts), KeyOf(n), 0)

InScan == ctl = "scan" /\ pos <= NPairs /\ cycle < MaxCycles

\* the except block: print, traceback, time.sleep(2); the loop goes on; sent
\* are the notifications the iteration sent before it raised
Caught(sent, spent) ==
    /\ ctl' = "scan"
    /\ pos' = pos + 1
    /\ first_failed' = IF first_failed = 0 THEN pos ELSE first_failed
    /\ outbox' = sent
    /\ last_key' = IF sent = << >> THEN last_key ELSE KeyOf(sent[Len(sent)])
    /\ since' = Elapse(IF sent = << >> THEN last_key ELSE KeyOf(sent[Len(sent)]),
                       IF sent = << >> THEN since ELSE 0,
                       spent + ErrorSleepSeconds)
    /\ UNCHANGED cycle

\* one iteration: the response read carries bars and the analysis completes
ScanPair ==
    /\ InScan
    /\ \E d \in Series :
         /\ ~pipeline[d].raises
         /\ LET sent == SendAll(pipeline[d].alerts, last_key, since)
            IN  /\ outbox' = sent
                /\ last_key' = IF sent = << >> THEN last_key ELSE KeyOf(sent[Len(sent)])
                /\ since' = IF sent = << >> THEN since ELSE 0
         /\ bars' = d
         /\ levels' = pipeline[d].niveles
    /\ req_id' = req_id + 1
    /\ response' = [asked |-> Request, got |-> Head(Sent)]
    /\ wire' = Tail(Sent)
    /\ attempts' = [attempts EXCEPT ![pos] = @ + 1]
    /\ pos' = pos + 1
    /\ UNCHANGED << ctl, cycle, first_failed, pipeline, clustervars >>

\* one iteration: the response read carries bars whose analysis raises
ScanPairAnalysisError ==
    /\ InScan
    /\ \E d \in Series :
         /\ pipeline[d].raises
         /\ bars' = d
         /\ levels' = pipeline[d].niveles
         /\ Caught(SendAll(pipeline[d].alerts, last_key, since), 0)
    /\ req_id' = req_id + 1
    /\ response' = [asked |-> Request, got |-> Head(Sent)]
    /\ wire' = Tail(Sent)
    /\ attempts' = [attempts EXCEPT ![pos] = @ + 1]
    /\ UNCHANGED << pipeline, clustervars >>

\* one iteration: the response read has an "error" member, candles() raises
ScanPairProviderError ==
    /\ InScan
    /\ req_id' = req_id + 1
    /\ wire' = Tail(Sent)
    /\ attempts' = [attempts EXCEPT ![pos] = @ + 1]
    /\ Caught(<< >>, 0)
    /\ UNCHANGED << response, bars, levels, pipeline, clustervars >>

\* plausible slip: the try block wraps the loops, the exception leaves the scan
ScanPairTimeoutEscapes ==
    /\ InScan
    /\ req_id' = req_id + 1
    /\ wire' = Sent
    /\ attempts' = [attempts EXCEPT ![pos] = @ + 1]
    /\ ctl' = "crashed"
    /\ since' = Elapse(last_key, since, RecvTimeoutSeconds)
    /\ outbox' = << >>
    /\ UNCHANGED << cycle, pos, first_failed, last_key, response, bars, levels,
                    pipeline, clustervars >>

\* one iteration: ws.recv() times out, the response stays on its way
ScanPairTimeout ==
    /\ InScan
    /\ req_id' = req_id + 1
    /\ wire' = Sent
    /\ attempts' = [attempts EXCEPT ![pos] = @ + 1]
    /\ Caught(<< >>, RecvTimeoutSeconds)
    /\ UNCHANGED << response, bars, levels, pipeline, clustervars >>

\* escanear_y_alertar returns; run() sleeps and starts the next cycle
Sleep ==
    /\ ctl = "scan"
    /\ pos = NPairs + 1
    /\ cycle < MaxCycles
    /\ since' = Elapse(last_key, since, SleepSeconds)
    /\ cycle' = cycle + 1
    /\ pos' = 1
    /\ attempts' = [k \in 1..NPairs |-> 0]
    /\ first_failed' = 0
    /\ outbox' = << >>
    /\ UNCHANGED << ctl, req_id, wire, last_key, response, bars, levels,
                    pipeline, clustervars >>

Next ==
    \/ ScanPair
    \/ ScanPairAnalysisError
    \/ ScanPairProviderError
    \/ ScanPairTimeout
    \/ Sleep

Spec == Init /\ [][Next]_vars

\* ================================================ cluster_levels, applied
PivotPrices == {1000, 1002, 1003}
PivotTypes == {"piso", "techo"}
CloseChoices == {1000, 1003}

PivotLists ==
    UNION {[1..k -> [price : PivotPrices, type : PivotTypes]] : k \in 0..MaxPivots}

\* pivots carry their position as idx
AsPivots(l) == [k \in 1..Len(l) |-> [idx |-> k - 1, price |-> l[k].price, type |-> l[k].type]]

ClusterInit ==
    /\ pipeline = << >>
    /\ ScanInit
    /\ stage = "input"
    /\ \E l \in PivotLists, c \in CloseChoices :
           input = [pivots |-> AsPivots(l), last_close |-> c]
    /\ output = << >>
    /\ again = << >>

RECURSIVE ProductOfDens(_)
ProductOfDens(lvls) ==
    IF lvls = << >> THEN 1 ELSE Head(lvls).price.d * ProductOfDens(Tail(lvls))

\* the centroids of lvls as singleton pivots of their level's kind; every
\* price is multiplied by the same factor to stay an integer, which moves
\* percent_dist by rounding only
Singletons(lvls) ==
    LET scale == ProductOfDens(lvls)
    IN  [k \in 1..Len(lvls) |->
            [idx |-> k - 1,
             price |-> lvls[k].price.n * (scale \div lvls[k].price.d),
             type |-> lvls[k].type]]

Cluster ==
    /\ stage = "input"
    /\ output' = cluster_levels(input.pivots, MAX_DISTANCE_PCT, input.last_close)
    /\ stage' = "clustered"
    /\ UNCHANGED << scanvars, input, again >>

Recluster ==
    /\ stage = "clustered"
    /\ again' = cluster_levels(Singletons(output), MAX_DISTANCE_PCT,
                               input.last_close * ProductOfDens(output))
    /\ stage' = "reclustered"
    /\ UNCHANGED << scanvars, input, output >>

ClusterNext ==
    \/ Cluster
    \/ Recluster

ClusterSpec == ClusterInit /\ [][ClusterNext]_vars

\* ================================================================ claims
Sent0 == {outbox[k] : k \in 1..Len(outbox)}
Levels0 == {levels[k] : k \in 1..Len(levels)}
Output0 == {output[k] : k \in 1..Len(output)}
MembersOf(lv) == {lv.members[k] : k \in 1..Len(lv.members)}

\* C1: no two notifications for the same Alert Key are sent less than
\* cooldown_seconds apart, whatever the scans see.
C1_NoRepeatWithinCooldown ==
    \A n \in Sent0 : n.gap = -1 \/ n.gap >= CooldownSeconds

\* the level's proximity zone: within MAX_DISTANCE_PCT of the level price
InZone(close, n) ==
    percent_dist_le(FloatOf(close), FloatOfRat(n.price), MAX_DISTANCE_PCT)

\* C2: a notification is sent only on a transition, the previous close
\* outside the level's zone and the latest close inside it.
C2_OnlyOnTransition ==
    \A n \in Sent0 : InZone(n.close, n) /\ ~InZone(n.prev, n)

\* C3: a notification is sent only while the price has not crossed the level
\* and moves towards it: techo, close <= level and close > previous close;
\* piso, close >= level and close < previous close.
C3_ApproachingNotBroken ==
    \A n \in Sent0 :
        IF n.type = "techo"
        THEN RatLe(IntRat(n.close), n.price) /\ n.close > n.prev
        ELSE RatLe(n.price, IntRat(n.close)) /\ n.close < n.prev

\* C4: within a cycle every pair before the loop position has been attempted
\* exactly once and no later pair has, whatever failed on the way, and no
\* exception leaves escanear_y_alertar.
C4_PairsIsolated ==
    /\ ctl # "crashed"
    /\ \A k \in 1..NPairs : attempts[k] = IF k < pos THEN 1 ELSE 0

\* a cycle that ran to its end although its first pair failed
C4_Witness ==
    /\ pos = NPairs + 1
    /\ first_failed = 1
    /\ \A k \in 1..NPairs : attempts[k] = 1

\* C5 (as stated): every member pivot of a returned level has the level's kind.
C5_NeverMixed ==
    stage # "input" => \A lv \in Output0 : \A m \in MembersOf(lv) : m.type = lv.type

\* C5 (amended): a returned level may hold pivots of both kinds, all of them
\* within the tolerance of its first member; its kind is the kind of the
\* majority of its members, piso when the two kinds are equally many.
C5_DominantKind ==
    stage # "input" =>
        \A lv \in Output0 :
            LET np == Cardinality({k \in 1..Len(lv.members) : lv.members[k].type = "piso"})
                nt == Cardinality({k \in 1..Len(lv.members) : lv.members[k].type = "techo"})
            IN  /\ lv.type = "piso" <=> np >= nt
                /\ lv.type = "techo" <=> nt > np
                /\ \A m \in MembersOf(lv) :
                       percent_dist_le(FloatOf(lv.members[1].price), FloatOf(m.price),
                                       MAX_DISTANCE_PCT)

\* a returned level that merged a piso pivot with a techo pivot
C5_Witness ==
    /\ stage = "clustered"
    /\ \E lv \in Output0 : \E m1, m2 \in MembersOf(lv) :
           m1.type = "piso" /\ m2.type = "techo" /\ lv.touches = MaxPivots

\* C6: no two returned levels of the same kind have prices within the
\* tolerance of each other, and re-clustering the returned centroids as
\* singleton pivots merges none of them.
C6_Separated ==
    /\ stage # "input" =>
           \A i, j \in 1..Len(output) :
               (i # j /\ output[i].type = output[j].type)
                   => ~percent_dist_le(FloatOfRat(output[i].price),
                                       FloatOfRat(output[j].price), MAX_DISTANCE_PCT)
    /\ stage = "reclustered" => Len(again) = Len(output)

\* C7 (as stated): SL is SL_ATR_FACTOR * ATR beyond the level and TP is taken
\* from the close: risk = |close - SL|, TP = close +/- RR_RATIO * risk.
C7_TakeProfitFromClose ==
    \A n \in Sent0 :
        LET risk == RatAbs(RatSub(IntRat(n.close), n.sl))
        IN  IF n.type = "piso"
            THEN /\ RatEq(n.sl, RatSub(n.price, RatScale(SL_ATR_FACTOR, n.atr)))
                 /\ RatEq(n.tp, RatAdd(IntRat(n.close), RatScale(RR_RATIO, risk)))
            ELSE /\ RatEq(n.sl, RatAdd(n.price, RatScale(SL_ATR_FACTOR, n.atr)))
                 /\ RatEq(n.tp, RatSub(IntRat(n.close), RatScale(RR_RATIO, risk)))

\* C7 (amended): SL is SL_ATR_FACTOR * ATR beyond the level and TP is taken
\* from the level price: risk = |level - SL| = SL_ATR_FACTOR * ATR,
\* TP = level + RR_RATIO * risk for piso, level - RR_RATIO * risk for techo.
C7_TakeProfitFromLevel ==
    \A n \in Sent0 :
        LET risk == RatScale(SL_ATR_FACTOR, n.atr)
        IN  IF n.type = "piso"
            THEN /\ RatEq(n.sl, RatSub(n.price, risk))
                 /\ RatEq(n.tp, RatAdd(n.price, RatScale(RR_RATIO, risk)))
            ELSE /\ RatEq(n.sl, RatAdd(n.price, risk))
                 /\ RatEq(n.tp, RatSub(n.price, RatScale(RR_RATIO, risk)))

\* a piso alert just sent with the close away from the level price
C7_Witness ==
    \E n \in Sent0 : n.type = "piso" /\ ~RatEq(IntRat(n.close), n.price)

\* C8: every level detectar_niveles_fuertes returns, and every level notified,
\* has touches >= MIN_TOUCHES; touches is the number of pivots merged into the
\* level and its price their arithmetic mean; bars whose clusters all have
\* fewer than MIN_TOUCHES pivots send nothing.
C8_TouchesAndMean ==
    LET cls == IF bars = NoSeries THEN << >> ELSE pipeline[bars].clusters
    IN  /\ \A lv \in Levels0 :
               /\ lv.touches >= MIN_TOUCHES
               /\ \E k \in 1..Len(cls) :
                      /\ cls[k].type = lv.type
                      /\ RatEq(cls[k].price, lv.price)
                      /\ cls[k].touches = lv.touches
                      /\ cls[k].count = lv.touches
                      /\ cls[k].price.n * lv.touches = cls[k].price.d * cls[k].total
        /\ \A n \in Sent0 :
               /\ n.touches >= MIN_TOUCHES
               /\ \E lv \in Levels0 :
                      lv.type = n.type /\ RatEq(lv.price, n.price) /\ lv.touches = n.touches
        /\ (\A k \in 1..Len(cls) : cls[k].touches < MIN_TOUCHES) => outbox = << >>

\* a notified level whose price is the mean of unequal pivot prices
C8_Witness ==
    \E n \in Sent0 : n.touches >= MIN_TOUCHES /\ n.price.d > 1

\* bars analysed to the end whose clusters all stay below MIN_TOUCHES
C8_WitnessWeak ==
    /\ bars # NoSeries
    /\ Len(pipeline[bars].clusters) > 0
    /\ \A k \in 1..Len(pipeline[bars].clusters) : pipeline[bars].clusters[k].touches < MIN_TOUCHES

\* closes, among the look bars before idx, in the direction that approaches
\* a level of the given kind
Toward(cs, idx, look, type) ==
    IF type = "techo" THEN UpsBefore(cs, idx, look) ELSE DownsBefore(cs, idx, look)

\* C9: a member pivot is counted as a good hit only if at least 70% of the
\* 5 bars before it close in the direction that approaches the level
\* (up-closes for techo, down-closes for piso).
C9_MomentumTowardLevel ==
    \A lv \in Levels0 : \A k \in 1..Len(lv.evidences) :
        /\ lv.evidences[k] - MomentumLook >= 0
        /\ 10 * Toward(SeriesOf(bars), lv.evidences[k], MomentumLook, lv.type)
               >= 7 * MomentumLook

\* C10: the bars a candles call returns answer that call's own request.
C10_ResponseMatchesRequest ==
    response # NoResponse => response.got = response.asked
====
